---- MODULE Spec2Model ----
(***************************************************************************)
(* Model of ethcore/src/engines/authority_round/util.rs: BoundContract,    *)
(* its constructor bind and its two operations call_const and              *)
(* schedule_service_transaction, together with the part of the client the  *)
(* operations talk to (capability check, read execution, submission).      *)
(***************************************************************************)
EXTENDS Integers, Sequences, FiniteSets, TLC

\* ---------------------------------------------------------------- bounds
\* Highest block number the chain may reach.
MaxHeight == 1
\* Cap on the number of stale (Old) rejections, hence on the diagnostic log.
MaxStale == 1

\* --------------------------------------------------------------- domains
Clients == {"full", "light"}
Addresses == {1, 2}
\* The address at which the management contract is deployed.
ContractAt == 1
\* Encoded call payloads (ethabi::Bytes): a one-byte function selector.
Payloads == {<<0>>, <<1>>, <<2>>}
\* Output decoders (ethabi::FunctionOutputDecoder implementations).
Decoders == {"bool", "uint"}
\* Values of the contract's storage word.
Values == {0, 1, 2}
\* The storage word at the genesis block.
GenesisValue == {0}
\* BlockId: the best block, the genesis block, or a block number.
BlockIds == {[kind |-> "Latest"], [kind |-> "Earliest"], [kind |-> "Number", n |-> 1]}
\* transaction::Error variants other than AlreadyImported and Old.
OtherRejections == {"TooCheapToReplace", "InsufficientGasPrice"}
TransactOutcomes == {"Ok", "AlreadyImported", "Old"} \cup OtherRejections

\* Option<T>: None is the empty sequence, Some(x) the sequence <<x>>.
None == <<>>
Some(x) == <<x>>

VARIABLES
    binding,        \* the BoundContract in scope: client, block_id, contract_addr
    bound,          \* the arguments bind was called with
    chain,          \* chain[n+1] = the contract's storage word at block n
    latest_nonce,   \* the engine signer's nonce in the latest state
    pool,           \* the pending-transaction pool
    log,            \* records emitted by warn!
    stale,          \* number of submissions the pool rejected as Old
    last            \* the last operation: arguments, result, invocations, state before

vars == <<binding, bound, chain, latest_nonce, pool, log, stale, last>>

\* ------------------------------------------------------------ the client
Height(ch) == Len(ch) - 1

\* EngineClient::as_full_client: Some(full client) or None.
as_full_client(client) == IF client = "full" THEN Some(client) ELSE None

\* Resolution of a block selector against the chain ch.
resolve(ch, block_id) ==
    IF block_id.kind = "Latest" THEN Some(Height(ch))
    ELSE IF block_id.kind = "Earliest" THEN Some(0)
    ELSE IF block_id.n <= Height(ch) THEN Some(block_id.n)
    ELSE None

\* What executing `data` read-only on the contract at `addr` returns when the
\* storage word is v: selector 0 reads the word, selector 1 (the mutator) has
\* no return data, any other selector reverts; an address without code
\* returns no data.
execute(v, addr, data) ==
    IF addr # ContractAt THEN [tag |-> "Ok", val |-> <<>>]
    ELSE IF data = <<0>> THEN [tag |-> "Ok", val |-> <<v>>]
    ELSE IF data = <<1>> THEN [tag |-> "Ok", val |-> <<>>]
    ELSE [tag |-> "Err", err |-> "Reverted"]

\* BlockChainClient::call_contract: Result<Bytes, String>.
call_contract(ch, block_id, addr, data) ==
    LET at == resolve(ch, block_id) IN
    IF at = None THEN [tag |-> "Err", err |-> "StatePruned"]
    ELSE execute(ch[at[1] + 1], addr, data)

\* FunctionOutputDecoder::decode: Result<Output, ethabi::Error>.
decode(decoder, bytes) ==
    IF Len(bytes) # 1 THEN [tag |-> "Err", err |-> "InvalidData"]
    ELSE IF decoder = "uint" THEN [tag |-> "Ok", val |-> [uint |-> bytes[1]]]
    ELSE IF bytes[1] = 1 THEN [tag |-> "Ok", val |-> [bool |-> TRUE]]
    ELSE IF bytes[1] = 0 THEN [tag |-> "Ok", val |-> [bool |-> FALSE]]
    ELSE [tag |-> "Err", err |-> "InvalidData"]

\* The transaction Client::transact builds: zero value, the latest nonce.
transaction(nonce, action, data, gas, gas_price) ==
    [action |-> action, data |-> data, value |-> 0, gas |-> gas,
     gas_price |-> gas_price, nonce |-> nonce]

\* The transaction an invocation of transact builds at the given nonce.
submitted(nonce, inv) ==
    transaction(nonce, inv.action, inv.data, inv.gas, inv.gas_price)

\* The answers the pool may give to a submission, as the pool is now: an
\* identical pending transaction is AlreadyImported; a different pending
\* transaction of the same sender and nonce is not replaced at an equal gas
\* price; otherwise the transaction may be accepted, found stale, or refused.
transact_answers(tx) ==
    IF tx \in pool THEN {"AlreadyImported"}
    ELSE IF \E p \in pool : p.nonce = tx.nonce THEN {"TooCheapToReplace"}
    ELSE {"Ok", "InsufficientGasPrice"} \cup (IF stale < MaxStale THEN {"Old"} ELSE {})

\* The pool after one invocation of a client primitive.
pool_after(p, inv) ==
    IF inv.prim = "transact" /\ inv.ret = "Ok"
    THEN p \cup {submitted(latest_nonce, inv)}
    ELSE p

RECURSIVE pool_after_all(_, _)
pool_after_all(p, invs) ==
    IF invs = <<>> THEN p
    ELSE pool_after_all(pool_after(p, Head(invs)), Tail(invs))

\* ------------------------------------------------------ util.rs, the code
\* CallError
CallFailed(s) == [kind |-> "CallFailed", msg |-> s]
DecodeFailed(e) == [kind |-> "DecodeFailed", error |-> e]
NotFullClient == [kind |-> "NotFullClient"]
TransactionFailed(e) == [kind |-> "TransactionFailed", reason |-> e]

Ok(v) == [tag |-> "Ok", val |-> v]
Err(e) == [tag |-> "Err", err |-> e]
Unit == "()"

\* BoundContract::bind
bind(client, block_id, contract_addr) ==
    [client |-> client, block_id |-> block_id, contract_addr |-> contract_addr]

InvCall(block_id, addr, data, ret) ==
    [prim |-> "call_contract", block_id |-> block_id, addr |-> addr,
     data |-> data, ret |-> ret]
InvDecode(decoder, bytes, ret) ==
    [prim |-> "decode", decoder |-> decoder, bytes |-> bytes, ret |-> ret]
InvTransact(action, data, gas, gas_price, ret) ==
    [prim |-> "transact", action |-> action, data |-> data, gas |-> gas,
     gas_price |-> gas_price, ret |-> ret]

\* call_const as it would be if it went through the submission primitive.
call_const_transacting(self, call) ==
    IF as_full_client(self.client) = None
    THEN [result |-> Err(NotFullClient), invoked |-> <<>>, warned |-> <<>>, self |-> self]
    ELSE
      LET ret == call_contract(chain, self.block_id, self.contract_addr, call[1])
          i0 == InvTransact([kind |-> "Call", addr |-> self.contract_addr], call[1],
                            None, Some(0), "Ok")
          i1 == InvCall(self.block_id, self.contract_addr, call[1], ret)
      IN
      IF ret.tag = "Err"
      THEN [result |-> Err(CallFailed(ret.err)), invoked |-> <<i0, i1>>,
            warned |-> <<>>, self |-> self]
      ELSE
        LET dec == decode(call[2], ret.val) IN
        [result |-> IF dec.tag = "Err" THEN Err(DecodeFailed(dec.err)) ELSE Ok(dec.val),
         invoked |-> <<i0, i1, InvDecode(call[2], ret.val, dec)>>,
         warned |-> <<>>, self |-> self]

\* call_const as it would be if it dropped the diagnostic of a failed call.
call_const_lossy(self, call) ==
    IF as_full_client(self.client) = None
    THEN [result |-> Err(NotFullClient), invoked |-> <<>>, warned |-> <<>>, self |-> self]
    ELSE
      LET ret == call_contract(chain, self.block_id, self.contract_addr, call[1])
          i1 == InvCall(self.block_id, self.contract_addr, call[1], ret)
      IN
      IF ret.tag = "Err"
      THEN [result |-> Err(CallFailed("call failed")), invoked |-> <<i1>>,
            warned |-> <<>>, self |-> self]
      ELSE
        LET dec == decode(call[2], ret.val) IN
        [result |-> IF dec.tag = "Err" THEN Err(DecodeFailed(dec.err)) ELSE Ok(dec.val),
         invoked |-> <<i1, InvDecode(call[2], ret.val, dec)>>,
         warned |-> <<>>, self |-> self]

\* call_const as it would be if the binding kept the last result per call.
call_const_cached(self, call) ==
    IF as_full_client(self.client) = None
    THEN [result |-> Err(NotFullClient), invoked |-> <<>>, warned |-> <<>>, self |-> self]
    ELSE IF last.op = "call_const" /\ last.call = call
    THEN [result |-> last.result, invoked |-> <<>>, warned |-> <<>>, self |-> self]
    ELSE
      LET ret == call_contract(chain, self.block_id, self.contract_addr, call[1])
          i1 == InvCall(self.block_id, self.contract_addr, call[1], ret)
      IN
      IF ret.tag = "Err"
      THEN [result |-> Err(CallFailed(ret.err)), invoked |-> <<i1>>,
            warned |-> <<>>, self |-> self]
      ELSE
        LET dec == decode(call[2], ret.val) IN
        [result |-> IF dec.tag = "Err" THEN Err(DecodeFailed(dec.err)) ELSE Ok(dec.val),
         invoked |-> <<i1, InvDecode(call[2], ret.val, dec)>>,
         warned |-> <<>>, self |-> self]

\* BoundContract::call_const: the result, the primitives invoked in order,
\* the records written by warn!, and the binding afterwards.
call_const(self, call) ==
    LET data == call[1]
        output_decoder == call[2]
    IN
    IF as_full_client(self.client) = None
    THEN [result |-> Err(NotFullClient), invoked |-> <<>>, warned |-> <<>>, self |-> self]
    ELSE
      LET ret == call_contract(chain, self.block_id, self.contract_addr, data)
          i1 == InvCall(self.block_id, self.contract_addr, data, ret)
      IN
      IF ret.tag = "Err"
      THEN [result |-> Err(CallFailed(ret.err)), invoked |-> <<i1>>,
            warned |-> <<>>, self |-> self]
      ELSE
        LET dec == decode(output_decoder, ret.val)
            i2 == InvDecode(output_decoder, ret.val, dec)
        IN
        [result |-> IF dec.tag = "Err" THEN Err(DecodeFailed(dec.err)) ELSE Ok(dec.val),
         invoked |-> <<i1, i2>>, warned |-> <<>>, self |-> self]

\* The match as it would be if Old were passed on as an error.
match_transact_old_fails(ret) ==
    IF ret = "AlreadyImported" \/ ret = "Ok" THEN [result |-> Ok(Unit), warned |-> <<>>]
    ELSE [result |-> Err(TransactionFailed(ret)), warned |-> <<>>]

\* The match as it would be if the Old arm did not warn.
match_transact_silent(ret) ==
    IF ret = "AlreadyImported" \/ ret = "Ok" \/ ret = "Old"
    THEN [result |-> Ok(Unit), warned |-> <<>>]
    ELSE [result |-> Err(TransactionFailed(ret)), warned |-> <<>>]

\* The match as it would be if AlreadyImported were passed on as an error.
match_transact_dup_fails(ret) ==
    IF ret = "Ok" THEN [result |-> Ok(Unit), warned |-> <<>>]
    ELSE IF ret = "Old"
    THEN [result |-> Ok(Unit),
          warned |-> <<[target |-> "engine", msg |-> "Client::transact failed", err |-> ret]>>]
    ELSE [result |-> Err(TransactionFailed(ret)), warned |-> <<>>]

\* The match as it would be if every rejection were absorbed.
match_transact_all_ok(ret) ==
    IF ret = "Old"
    THEN [result |-> Ok(Unit),
          warned |-> <<[target |-> "engine", msg |-> "Client::transact failed", err |-> ret]>>]
    ELSE [result |-> Ok(Unit), warned |-> <<>>]

\* The match on transact's return value (util.rs lines 101-105).
match_transact(ret) ==
    IF ret = "AlreadyImported" \/ ret = "Ok" THEN [result |-> Ok(Unit), warned |-> <<>>]
    ELSE IF ret = "Old"
    THEN [result |-> Ok(Unit),
          warned |-> <<[target |-> "engine", msg |-> "Client::transact failed", err |-> ret]>>]
    ELSE [result |-> Err(TransactionFailed(ret)), warned |-> <<>>]

\* schedule_service_transaction as it would be without the capability check.
schedule_service_transaction_unchecked(self, call, answer) ==
    LET action == [kind |-> "Call", addr |-> self.contract_addr]
        m == match_transact(answer)
    IN
    [result |-> m.result, invoked |-> <<InvTransact(action, call[1], None, Some(0), answer)>>,
     warned |-> m.warned, self |-> self]

\* schedule_service_transaction as it would be without the gas price override.
schedule_service_transaction_priced(self, call, answer) ==
    IF as_full_client(self.client) = None
    THEN [result |-> Err(NotFullClient), invoked |-> <<>>, warned |-> <<>>, self |-> self]
    ELSE
      LET action == [kind |-> "Call", addr |-> self.contract_addr]
          m == match_transact(answer)
      IN
      [result |-> m.result, invoked |-> <<InvTransact(action, call[1], None, None, answer)>>,
       warned |-> m.warned, self |-> self]

\* schedule_service_transaction as it would be if it submitted again after Old.
schedule_service_transaction_retrying(self, call, answer) ==
    IF as_full_client(self.client) = None
    THEN [result |-> Err(NotFullClient), invoked |-> <<>>, warned |-> <<>>, self |-> self]
    ELSE
      LET action == [kind |-> "Call", addr |-> self.contract_addr]
          i1 == InvTransact(action, call[1], None, Some(0), answer)
          m == match_transact(answer)
      IN
      [result |-> m.result,
       invoked |-> IF answer = "Old" THEN <<i1, i1>> ELSE <<i1>>,
       warned |-> m.warned, self |-> self]

\* BoundContract::schedule_service_transaction; `answer` is what the pool
\* answers to the submission.
schedule_service_transaction(self, call, answer) ==
    LET data == call[1] IN
    IF as_full_client(self.client) = None
    THEN [result |-> Err(NotFullClient), invoked |-> <<>>, warned |-> <<>>, self |-> self]
    ELSE
      LET action == [kind |-> "Call", addr |-> self.contract_addr]
          i1 == InvTransact(action, data, None, Some(0), answer)
          m == match_transact(answer)
      IN
      [result |-> m.result, invoked |-> <<i1>>, warned |-> m.warned, self |-> self]

\* ------------------------------------------------------------ the machine
NoOp == [op |-> "none"]

\* The state an operation can touch.
Snapshot(b, ch, n, p, l) ==
    [binding |-> b, chain |-> ch, latest_nonce |-> n, pool |-> p, log |-> l]

\* The contract's storage word at the block a selector resolves to on the
\* chain ch; None when it resolves to no block.
state_at(ch, block_id) ==
    LET at == resolve(ch, block_id) IN
    IF at = None THEN None ELSE Some(ch[at[1] + 1])

\* What the previous operation returned, when it was the same operation with
\* the same payload through this binding, and the state it ran against;
\* None otherwise.
Prior(op, call) ==
    IF last.op = op /\ last.call[1] = call[1]
    THEN Some([call |-> last.call, result |-> last.result, invoked |-> last.invoked,
               ctx |-> state_at(last.pre.chain, last.pre.binding.block_id)])
    ELSE None

CountOld(invs) ==
    Cardinality({i \in 1..Len(invs) : invs[i].prim = "transact" /\ invs[i].ret = "Old"})

\* The answers of the pool to every submission of an operation are answers
\* the pool can give.
Answered(invs) ==
    \A i \in 1..Len(invs) :
        invs[i].prim = "transact" =>
            invs[i].ret \in transact_answers(submitted(latest_nonce, invs[i]))

\* An operation that returned r takes effect: the client primitives it
\* invoked act on the pool, its warnings reach the log.
Effect(op, call, r) ==
    /\ Answered(r.invoked)
    /\ binding' = r.self
    /\ pool' = pool_after_all(pool, r.invoked)
    /\ log' = log \o r.warned
    /\ stale' = stale + CountOld(r.invoked)
    /\ UNCHANGED <<bound, chain, latest_nonce>>
    /\ last' = [op |-> op, call |-> call, result |-> r.result, invoked |-> r.invoked,
                prior |-> Prior(op, call),
                pre |-> Snapshot(binding, chain, latest_nonce, pool, log),
                post |-> Snapshot(binding', chain', latest_nonce', pool', log')]

Init ==
    /\ \E c \in Clients, b \in BlockIds, a \in Addresses :
          /\ binding = bind(c, b, a)
          /\ bound = [client |-> c, block_id |-> b, contract_addr |-> a]
    /\ \E v \in GenesisValue : chain = <<v>>
    /\ latest_nonce = 0
    /\ pool = {}
    /\ log = <<>>
    /\ stale = 0
    /\ last = NoOp

\* A caller drops the binding and constructs a new one.
Bind ==
    /\ \E c \in Clients, b \in BlockIds, a \in Addresses :
          /\ binding' = bind(c, b, a)
          /\ bound' = [client |-> c, block_id |-> b, contract_addr |-> a]
    /\ last' = NoOp
    /\ UNCHANGED <<chain, latest_nonce, pool, log, stale>>

\* A caller performs a constant call through the binding.
CallConst ==
    \E data \in Payloads, d \in Decoders :
        Effect("call_const", <<data, d>>, call_const(binding, <<data, d>>))

\* A caller schedules a service transaction through the binding.
ScheduleServiceTransaction ==
    \E data \in Payloads, d \in Decoders, answer \in TransactOutcomes :
        Effect("schedule_service_transaction", <<data, d>>,
               schedule_service_transaction(binding, <<data, d>>, answer))

\* The storage word after a transaction is executed.
apply(v, tx) ==
    IF tx.action.addr = ContractAt /\ tx.data = <<1>> THEN (v + 1) % Cardinality(Values)
    ELSE v

\* A block is sealed: it includes the pending transaction, if there is one.
MineBlock ==
    /\ Height(chain) < MaxHeight
    /\ \/ /\ pool = {}
          /\ chain' = Append(chain, chain[Len(chain)])
          /\ UNCHANGED latest_nonce
       \/ \E tx \in pool :
          /\ chain' = Append(chain, apply(chain[Len(chain)], tx))
          /\ latest_nonce' = latest_nonce + 1
    /\ pool' = {}
    /\ UNCHANGED <<binding, bound, log, stale, last>>

Next == Bind \/ CallConst \/ ScheduleServiceTransaction \/ MineBlock

Spec == Init /\ [][Next]_vars

\* ------------------------------------------------------------- properties
IsRead == last.op = "call_const"
IsWrite == last.op = "schedule_service_transaction"
\* The binding the last operation went through had a full client.
FullAtCall == as_full_client(last.pre.binding.client) # None
\* The positions in the last operation's trace at which `prim` was invoked.
Invocations(prim) == {i \in 1..Len(last.invoked) : last.invoked[i].prim = prim}
Suppressed == {"Ok", "AlreadyImported", "Old"}

\* C1: when as_full_client yields no handle, call_const and
\* schedule_service_transaction both return NotFullClient, invoke no client
\* primitive and no decoder, and leave pool, chain and log as they were.
C1_NotFullClient ==
    (last.op # "none" /\ as_full_client(last.pre.binding.client) = None) =>
        /\ last.result = [tag |-> "Err", err |-> [kind |-> "NotFullClient"]]
        /\ last.invoked = <<>>
        /\ last.post.pool = last.pre.pool
        /\ last.post.chain = last.pre.chain
        /\ last.post.latest_nonce = last.pre.latest_nonce
        /\ last.post.log = last.pre.log

\* A write through a light client while a transaction is pending.
C1_Witness ==
    /\ IsWrite
    /\ last.pre.binding.client = "light"
    /\ last.pre.pool # {}
    /\ last.result = Err(NotFullClient)

\* C2: with a full client the result of schedule_service_transaction is a
\* function of the single transact outcome: Ok, AlreadyImported and Old give
\* success, any other reason r gives TransactionFailed(r) with r unchanged.
C2_SubmissionOutcome ==
    (IsWrite /\ FullAtCall) =>
        /\ Len(last.invoked) = 1
        /\ last.invoked[1].prim = "transact"
        /\ LET r == last.invoked[1].ret IN
           last.result =
               CASE r = "Ok" -> [tag |-> "Ok", val |-> Unit]
                 [] r = "AlreadyImported" -> [tag |-> "Ok", val |-> Unit]
                 [] r = "Old" -> [tag |-> "Ok", val |-> Unit]
                 [] OTHER -> [tag |-> "Err",
                              err |-> [kind |-> "TransactionFailed", reason |-> r]]

\* A submission refused for another reason surfaced with that reason.
C2_Witness ==
    /\ IsWrite
    /\ FullAtCall
    /\ last.invoked[1].ret = "InsufficientGasPrice"
    /\ last.result = Err(TransactionFailed("InsufficientGasPrice"))

\* C3: with a full client the result of call_const is: CallFailed(s) with
\* the decoder not invoked when call_contract fails with s; DecodeFailed(e)
\* when the decoder rejects the returned bytes with e; otherwise the
\* decoder's output for those bytes (byte 1 as a boolean is true).
C3_ReadResult ==
    (IsRead /\ FullAtCall) =>
        LET b == last.pre.binding
            ret == call_contract(last.pre.chain, b.block_id, b.contract_addr, last.call[1])
            dec == decode(last.call[2], ret.val)
        IN
        /\ ret.tag = "Err" =>
              /\ last.result = [tag |-> "Err", err |-> [kind |-> "CallFailed", msg |-> ret.err]]
              /\ Invocations("decode") = {}
        /\ (ret.tag = "Ok" /\ dec.tag = "Err") =>
              last.result = [tag |-> "Err", err |-> [kind |-> "DecodeFailed", error |-> dec.err]]
        /\ (ret.tag = "Ok" /\ dec.tag = "Ok") =>
              last.result = [tag |-> "Ok", val |-> dec.val]
        /\ (ret.tag = "Ok" /\ ret.val = <<1>> /\ last.call[2] = "bool") =>
              last.result = [tag |-> "Ok", val |-> [bool |-> TRUE]]

\* A read that returned byte 1, decoded as the boolean true.
C3_Witness ==
    /\ IsRead
    /\ FullAtCall
    /\ last.call[2] = "bool"
    /\ last.result = Ok([bool |-> TRUE])

\* C4: every transaction schedule_service_transaction submits targets the
\* address given at bind, carries the caller's payload, has value 0 and gas
\* price 0; gas limit and nonce are not overridden.
C4_ServiceTransaction ==
    IsWrite =>
        /\ \A i \in Invocations("transact") :
              /\ last.invoked[i].action = [kind |-> "Call", addr |-> bound.contract_addr]
              /\ last.invoked[i].data = last.call[1]
              /\ last.invoked[i].gas = None
              /\ last.invoked[i].gas_price = Some(0)
        /\ \A tx \in last.post.pool \ last.pre.pool :
              /\ tx.action = [kind |-> "Call", addr |-> bound.contract_addr]
              /\ tx.data = last.call[1]
              /\ tx.value = 0
              /\ tx.gas_price = Some(0)
              /\ tx.gas = None
              /\ tx.nonce = last.pre.latest_nonce

\* A submission to the second address was accepted into the pool.
C4_Witness ==
    /\ IsWrite
    /\ bound.contract_addr = 2
    /\ last.call[1] = <<2>>
    /\ last.post.pool # last.pre.pool

\* C5: a submission rejected as Old returns success and appends exactly one
\* warning to the log; any other outcome appends nothing; so the log holds as
\* many records as there were Old rejections.
C5_StaleDiagnostics ==
    /\ Len(log) = stale
    /\ IsWrite =>
          IF Invocations("transact") # {} /\ last.invoked[1].ret = "Old"
          THEN /\ last.result = Ok(Unit)
               /\ Len(last.post.log) = Len(last.pre.log) + 1
               /\ SubSeq(last.post.log, 1, Len(last.pre.log)) = last.pre.log
               /\ last.post.log[Len(last.post.log)].target = "engine"
          ELSE last.post.log = last.pre.log

\* A submission was rejected as Old and the log holds its one record.
C5_Witness ==
    /\ IsWrite
    /\ FullAtCall
    /\ last.invoked[1].ret = "Old"
    /\ Len(log) = 1
    /\ stale = 1

\* C6: of two consecutive submissions of one payload through a full client,
\* each returns success unless the pool refuses it for a non-suppressed
\* reason; when the first was accepted and is still pending, the second is
\* answered AlreadyImported, returns success and leaves the pool as it was.
C6_IdenticalResubmission ==
    (IsWrite /\ FullAtCall /\ last.prior # None) =>
        LET first == last.prior[1]
            second == last.invoked[1]
        IN
        /\ first.invoked[1].ret \notin OtherRejections => first.result = Ok(Unit)
        /\ second.ret \notin OtherRejections => last.result = Ok(Unit)
        /\ (/\ first.invoked[1].ret = "Ok"
            /\ submitted(last.pre.latest_nonce, first.invoked[1]) \in last.pre.pool) =>
                /\ second.ret = "AlreadyImported"
                /\ last.result = Ok(Unit)
                /\ last.post.pool = last.pre.pool

\* The same payload was submitted twice, the first still pending.
C6_Witness ==
    /\ IsWrite
    /\ FullAtCall
    /\ last.prior # None
    /\ last.prior[1].invoked[1].ret = "Ok"
    /\ last.invoked[1].ret = "AlreadyImported"
    /\ last.result = Ok(Unit)
    /\ Cardinality(last.post.pool) = 1

\* C7: call_const has no side effect in any branch: it never invokes
\* transact, and pool, chain, nonce, log and the binding are unchanged.
C7_ReadIsPure ==
    IsRead =>
        /\ Invocations("transact") = {}
        /\ last.post.pool = last.pre.pool
        /\ last.post.chain = last.pre.chain
        /\ last.post.latest_nonce = last.pre.latest_nonce
        /\ last.post.log = last.pre.log
        /\ last.post.binding = last.pre.binding

\* A successful read while a transaction was pending.
C7_Witness ==
    /\ IsRead
    /\ FullAtCall
    /\ last.result.tag = "Ok"
    /\ last.pre.pool # {}

C9_NoCache ==
    /\ binding = [client |-> bound.client, block_id |-> bound.block_id,
                  contract_addr |-> bound.contract_addr]
    /\ last.op # "none" => (last.post.binding = binding /\ last.pre.binding = binding)
    /\ (IsRead /\ FullAtCall) =>
          /\ Len(last.invoked) >= 1
          /\ last.invoked[1] =
                InvCall(bound.block_id, bound.contract_addr, last.call[1],
                        call_contract(last.pre.chain, bound.block_id,
                                      bound.contract_addr, last.call[1]))
          /\ (/\ last.prior # None
              /\ last.prior[1].call = last.call
              /\ last.prior[1].ctx = state_at(last.pre.chain, bound.block_id)) =>
                  last.result = last.prior[1].result

\* The same call through a binding to the latest block returned two
\* different results, the chain having advanced in between.
C9_Witness ==
    /\ IsRead
    /\ FullAtCall
    /\ bound.block_id.kind = "Latest"
    /\ last.prior # None
    /\ last.prior[1].call = last.call
    /\ last.prior[1].result.tag = "Ok"
    /\ last.result.tag = "Ok"
    /\ last.prior[1].result # last.result

\* C10: neither operation retries: call_const invokes call_contract at most
\* once, the decoder at most once and never transact;
\* schedule_service_transaction invokes transact exactly once with a full
\* client, not at all without, and never call_contract or the decoder.
C10_NoRetry ==
    /\ IsRead =>
          /\ Cardinality(Invocations("call_contract")) <= 1
          /\ Cardinality(Invocations("decode")) <= 1
          /\ Invocations("transact") = {}
          /\ Len(last.invoked) <= 2
    /\ IsWrite =>
          /\ Cardinality(Invocations("transact")) = (IF FullAtCall THEN 1 ELSE 0)
          /\ Len(last.invoked) = Cardinality(Invocations("transact"))

\* A submission refused because another transaction is pending was made
\* once and not repeated.
C10_Witness ==
    /\ IsWrite
    /\ FullAtCall
    /\ last.invoked[1].ret = "TooCheapToReplace"
    /\ Len(last.invoked) = 1
    /\ last.pre.pool # {}

====
